---- MODULE Spec2Model ----
(***************************************************************************)
(* A model of vector<T> (vector.h): raw buffers obtained with operator     *)
(* new, elements constructed and destroyed in place, and the public        *)
(* operations built on new_buffer / copy_construct_all.                    *)
(*                                                                         *)
(* The heap is a finite pool of blocks.  A block is a sequence of cells,   *)
(* each either RAW (no object) or the value of a constructed T.  Every     *)
(* fallible step (operator new, a copy construction or assignment of T)    *)
(* consumes one unit of a budget chosen by the environment; the step that  *)
(* finds the budget at 0 throws.  A public operation is one atomic action: *)
(* it runs to completion or unwinds completely, destructors included.      *)
(***************************************************************************)
EXTENDS Integers, Sequences, FiniteSets, TLC

VARIABLES vec, heap, live, err, last, hist

vars == <<vec, heap, live, err, last, hist>>

\* ------------------------------------------------------------------ bounds
\* Largest capacity a vector takes in Spec.
MaxCap == 2
\* Largest capacity and length the single vector of SpecGrow takes.
GrowCap == 8
GrowLen == 5
\* Number of block addresses of the heap.
NumBlocks == 3

\* Element values the callers pass in.
Vals == {1, 2}

\* nullptr
NULL == 0
\* a cell of raw, uninitialized memory
RAW == 0
\* budget that never runs out: no step of the operation fails
NoFail == 0 - 1

BlockIds == 1..NumBlocks
Vectors == {"a", "b"}

\* vector(): data_ = nullptr, size_ = 0, capacity_ = 0
NoVec == [alive |-> FALSE, data_ |-> NULL, size_ |-> 0, capacity_ |-> 0]
EmptyVec == [alive |-> TRUE, data_ |-> NULL, size_ |-> 0, capacity_ |-> 0]

FreeBlock == [alloc |-> FALSE, cells |-> << >>]

Min(S) == CHOOSE x \in S : \A y \in S : x <= y

\* ------------------------------------------------- the machine of one call
\* The state an operation threads through its steps.
Start(bud) ==
    [vec |-> vec, heap |-> heap, live |-> live, err |-> err,
     budget |-> bud, steps |-> 0, exc |-> "none", at |-> 0, p |-> NULL,
     tmpval |-> RAW]

Ok(m) == m.exc = "none"

\* one fallible step has succeeded
Tick(m) ==
    [m EXCEPT !.budget = IF @ > 0 THEN @ - 1 ELSE @, !.steps = @ + 1]

Throw(m, tag, i) == [m EXCEPT !.exc = tag, !.at = i]

Flag(m, e) == [m EXCEPT !.err = @ \cup {e}]

ValidCell(m, p, i) ==
    /\ p \in BlockIds
    /\ m.heap[p].alloc
    /\ i \in 1..Len(m.heap[p].cells)

\* operator new(n * sizeof(T)): a fresh block of n raw cells, or bad_alloc.
\* operator new(0) returns a non-null pointer to a block of no cells.
OpNew(m, n) ==
    IF m.budget = 0 THEN Throw(m, "alloc", 0)
    ELSE LET free == {b \in BlockIds : ~m.heap[b].alloc}
             p == Min(free)
         IN  [Tick(m) EXCEPT !.heap[p] = [alloc |-> TRUE, cells |-> [i \in 1..n |-> RAW]],
                             !.p = p]

\* operator delete(p): no-op on nullptr; releasing a block that is not
\* allocated, or one that still holds constructed objects, is recorded.
OpDelete(m, p) ==
    IF p = NULL THEN m
    ELSE IF ~m.heap[p].alloc THEN Flag(m, "double_free")
    ELSE LET m1 == IF \E i \in 1..Len(m.heap[p].cells) : m.heap[p].cells[i] # RAW
                   THEN Flag(m, "freed_live_elements") ELSE m
         IN  [m1 EXCEPT !.heap[p] = FreeBlock]

\* the value read through a T const& to cell i of block p
ReadCell(m, p, i) == IF ValidCell(m, p, i) THEN m.heap[p].cells[i] ELSE RAW

\* new (p + i) T(val): construct a T in cell i (1-based) of block p.
ConstructAt(m, p, i, val, tag) ==
    IF m.budget = 0 THEN Throw(m, tag, i - 1)
    ELSE LET m1 == Tick(m)
             m2 == IF val = RAW THEN Flag(m1, "read_of_dead_object") ELSE m1
         IN  IF ~ValidCell(m2, p, i) THEN Flag(m2, "write_outside_block")
             ELSE IF m2.heap[p].cells[i] # RAW THEN Flag(m2, "construct_over_live")
             ELSE [m2 EXCEPT !.heap[p].cells[i] = val, !.live = @ + 1]

\* p[i].~T()
DestroyAt(m, p, i) ==
    IF ~ValidCell(m, p, i) THEN Flag(m, "destroy_outside_block")
    ELSE IF m.heap[p].cells[i] = RAW THEN Flag(m, "destroy_of_dead_object")
    ELSE [m EXCEPT !.heap[p].cells[i] = RAW, !.live = @ - 1]

RECURSIVE DestroyLoop(_, _, _, _)
DestroyLoop(m, p, i, n) ==
    IF i > n THEN m ELSE DestroyLoop(DestroyAt(m, p, i), p, i + 1, n)

\* destroy_all(vec, size): destroys cells 1..size in index order (size is
\* an int in the source; the sizes of the model stay far below its range)
destroy_all(m, p, size) == DestroyLoop(m, p, 1, size)

RECURSIVE CopyLoop(_, _, _, _, _)
CopyLoop(m, dst, src, i, size) ==
    IF i > size THEN m
    ELSE LET m1 == ConstructAt(m, dst, i, ReadCell(m, src, i), "copy")
         IN  IF Ok(m1) THEN CopyLoop(m1, dst, src, i + 1, size)
             ELSE destroy_all(m1, dst, i - 1)

RECURSIVE CopyLoopNoRollback(_, _, _, _, _)
CopyLoopNoRollback(m, dst, src, i, size) ==
    IF i > size THEN m
    ELSE LET m1 == ConstructAt(m, dst, i, ReadCell(m, src, i), "copy")
         IN  IF Ok(m1) THEN CopyLoopNoRollback(m1, dst, src, i + 1, size) ELSE m1

\* mutant: the catch block does not destroy the copies already made
copy_construct_all_no_rollback(m, dst, src, size) ==
    CopyLoopNoRollback(m, dst, src, 1, size)

\* copy_construct_all(dst, src, size): on a failing copy the copies made so
\* far are destroyed and the exception is rethrown.
copy_construct_all(m, dst, src, size) == CopyLoop(m, dst, src, 1, size)

\* T tmp(val): a local T; its value is kept in m.tmpval
LocalCopy(m, val, tag) ==
    IF m.budget = 0 THEN Throw(m, tag, 0)
    ELSE LET m1 == IF val = RAW THEN Flag(Tick(m), "read_of_dead_object") ELSE Tick(m)
         IN  [m1 EXCEPT !.tmpval = val, !.live = @ + 1]

\* the local T goes out of scope
LocalDestroy(m) == [m EXCEPT !.tmpval = RAW, !.live = @ - 1]

\* a = b for two constructed T: a failing assignment leaves a as it was
AssignAt(m, p, i, val, tag) ==
    IF m.budget = 0 THEN Throw(m, tag, i - 1)
    ELSE LET m1 == Tick(m)
         IN  IF ~ValidCell(m1, p, i) \/ val = RAW \/ m1.heap[p].cells[i] = RAW
             THEN Flag(m1, "assign_dead_object")
             ELSE [m1 EXCEPT !.heap[p].cells[i] = val]

\* mutant: the local of the exchange is not destroyed when an assignment throws
swap_elems_leak(m, p, i, j) ==
    LET m1 == LocalCopy(m, ReadCell(m, p, i), "swap")
    IN  IF ~Ok(m1) THEN m1
        ELSE LET m2 == AssignAt(m1, p, i, ReadCell(m1, p, j), "swap")
             IN  IF ~Ok(m2) THEN m2
                 ELSE LET m3 == AssignAt(m2, p, j, m2.tmpval, "swap")
                      IN  IF ~Ok(m3) THEN m3 ELSE LocalDestroy(m3)

\* std::swap(p[i], p[j]): T tmp(p[i]); p[i] = p[j]; p[j] = tmp;
swap_elems(m, p, i, j) ==
    LET m1 == LocalCopy(m, ReadCell(m, p, i), "swap")
    IN  IF ~Ok(m1) THEN m1
        ELSE LET m2 == AssignAt(m1, p, i, ReadCell(m1, p, j), "swap")
             IN  IF ~Ok(m2) THEN LocalDestroy(m2)
                 ELSE LocalDestroy(AssignAt(m2, p, j, m2.tmpval, "swap"))

\* ------------------------------------------------------ vector's methods
\* mutant: the catch block does not release the block
vector_copy_leak(m, v, other) ==
    LET o  == m.vec[other]
        m1 == OpNew(m, o.capacity_)
    IN  IF ~Ok(m1) THEN m1
        ELSE LET m2 == copy_construct_all(m1, m1.p, o.data_, o.size_)
             IN  IF ~Ok(m2) THEN m2
                 ELSE [m2 EXCEPT !.vec[v] = [alive |-> TRUE, data_ |-> m1.p,
                                             size_ |-> o.size_, capacity_ |-> o.capacity_]]

\* mutant: the copy takes over the source's buffer instead of copying it
vector_copy_shallow(m, v, other) ==
    LET o == m.vec[other]
    IN  [m EXCEPT !.vec[v] = [alive |-> TRUE, data_ |-> o.data_,
                              size_ |-> o.size_, capacity_ |-> o.capacity_]]

\* vector(vector const& other)
vector_copy(m, v, other) ==
    LET o  == m.vec[other]
        m1 == OpNew(m, o.capacity_)
    IN  IF ~Ok(m1) THEN m1
        ELSE LET m2 == copy_construct_all(m1, m1.p, o.data_, o.size_)
             IN  IF ~Ok(m2) THEN OpDelete(m2, m1.p)
                 ELSE [m2 EXCEPT !.vec[v] = [alive |-> TRUE, data_ |-> m1.p,
                                             size_ |-> o.size_, capacity_ |-> o.capacity_]]

\* ~vector()
vector_dtor(m, v) ==
    LET x  == m.vec[v]
        m1 == OpDelete(destroy_all(m, x.data_, x.size_), x.data_)
    IN  [m1 EXCEPT !.vec[v] = NoVec]

\* mutant: size_ is not exchanged
vector_swap_no_size(m, v, w) ==
    [m EXCEPT !.vec[v] = [m.vec[w] EXCEPT !.alive = m.vec[v].alive,
                                          !.size_ = m.vec[v].size_],
              !.vec[w] = [m.vec[v] EXCEPT !.alive = m.vec[w].alive,
                                          !.size_ = m.vec[w].size_]]

\* swap(vector& other)
vector_swap(m, v, w) ==
    [m EXCEPT !.vec[v] = [m.vec[w] EXCEPT !.alive = m.vec[v].alive],
              !.vec[w] = [m.vec[v] EXCEPT !.alive = m.vec[w].alive]]

\* mutant: the old elements are destroyed before the copy is made
vector_assign_destructive(m, v, other) ==
    IF v = other THEN m
    ELSE LET m0 == [destroy_all(m, m.vec[v].data_, m.vec[v].size_)
                       EXCEPT !.vec[v].size_ = 0]
             m1 == vector_copy(m0, "tmp", other)
         IN  IF ~Ok(m1) THEN m1
             ELSE vector_dtor(vector_swap(m1, v, "tmp"), "tmp")

\* operator=(vector const& other)
vector_assign(m, v, other) ==
    IF v = other THEN m
    ELSE LET m1 == vector_copy(m, "tmp", other)
         IN  IF ~Ok(m1) THEN m1
             ELSE vector_dtor(vector_swap(m1, v, "tmp"), "tmp")

\* mutant: grows by one slot instead of doubling
increase_capacity_by_one(x) == x.capacity_ + 1

\* mutant: capacity 0 is doubled like any other
increase_capacity_no_zero_case(x) == x.capacity_ * 2

\* increase_capacity() (size_t arithmetic; the capacities of the model stay
\* far below the point where capacity_ * 2 wraps)
increase_capacity(x) == IF x.capacity_ = 0 THEN 1 ELSE x.capacity_ * 2

\* mutant: the new block is not released when a copy fails
new_buffer_leak(m, v, new_capacity) ==
    LET x  == m.vec[v]
        m0 == [m EXCEPT !.vec["tmp"] = EmptyVec]
    IN  IF new_capacity = 0 THEN vector_dtor(vector_swap(m0, v, "tmp"), "tmp")
        ELSE LET m1 == OpNew(m0, new_capacity)
             IN  IF ~Ok(m1) THEN vector_dtor(m1, "tmp")
                 ELSE LET m3 == copy_construct_all(m1, m1.p, x.data_, x.size_)
                      IN  IF ~Ok(m3) THEN vector_dtor(m3, "tmp")
                          ELSE LET m4 == [m3 EXCEPT !.vec["tmp"].data_ = m1.p,
                                                    !.vec["tmp"].capacity_ = new_capacity,
                                                    !.vec["tmp"].size_ = x.size_]
                               IN  vector_dtor(vector_swap(m4, v, "tmp"), "tmp")

\* new_buffer(new_capacity): the local vector tmp is destroyed on every path
new_buffer(m, v, new_capacity) ==
    LET x  == m.vec[v]
        m0 == [m EXCEPT !.vec["tmp"] = EmptyVec]
    IN  IF new_capacity = 0 THEN vector_dtor(vector_swap(m0, v, "tmp"), "tmp")
        ELSE LET m1 == OpNew(m0, new_capacity)
             IN  IF ~Ok(m1) THEN vector_dtor(m1, "tmp")
                 ELSE LET m2 == [m1 EXCEPT !.vec["tmp"].data_ = m1.p]
                          m3 == copy_construct_all(m2, m1.p, x.data_, x.size_)
                      IN  IF ~Ok(m3) THEN vector_dtor(m3, "tmp")
                          ELSE LET m4 == [m3 EXCEPT !.vec["tmp"].capacity_ = new_capacity,
                                                    !.vec["tmp"].size_ = x.size_]
                               IN  vector_dtor(vector_swap(m4, v, "tmp"), "tmp")

\* The argument of push_back / insert is a T const&: a reference to an object
\* of the caller (own = FALSE, its value val) or to element i of this vector
\* in the buffer p the vector had when the call was made.
ReadRef(m, ref) == IF ref.own THEN ReadCell(m, ref.p, ref.i) ELSE ref.val

\* mutant: size_ is incremented before the new element is constructed
push_back_realloc_count_first(m, v, ref) ==
    LET m1 == LocalCopy(m, ReadRef(m, ref), "local")
    IN  IF ~Ok(m1) THEN m1
        ELSE LET m2 == new_buffer(m1, v, increase_capacity(m1.vec[v]))
             IN  IF ~Ok(m2) THEN LocalDestroy(m2)
                 ELSE LET x  == m2.vec[v]
                          m3 == [m2 EXCEPT !.vec[v].size_ = @ + 1]
                      IN  LocalDestroy(ConstructAt(m3, x.data_, x.size_ + 1, m2.tmpval, "final"))

\* mutant: no local copy; the argument is read after the reallocation
push_back_realloc_no_local_copy(m, v, ref) ==
    LET m2 == new_buffer(m, v, increase_capacity(m.vec[v]))
    IN  IF ~Ok(m2) THEN m2
        ELSE LET x  == m2.vec[v]
                 m3 == ConstructAt(m2, x.data_, x.size_ + 1, ReadRef(m2, ref), "final")
             IN  IF ~Ok(m3) THEN m3
                 ELSE [m3 EXCEPT !.vec[v].size_ = @ + 1]

\* push_back_realloc(value)
push_back_realloc(m, v, ref) ==
    LET m1 == LocalCopy(m, ReadRef(m, ref), "local")
    IN  IF ~Ok(m1) THEN m1
        ELSE LET m2 == new_buffer(m1, v, increase_capacity(m1.vec[v]))
             IN  IF ~Ok(m2) THEN LocalDestroy(m2)
                 ELSE LET x  == m2.vec[v]
                          m3 == ConstructAt(m2, x.data_, x.size_ + 1, m2.tmpval, "final")
                      IN  IF ~Ok(m3) THEN LocalDestroy(m3)
                          ELSE LocalDestroy([m3 EXCEPT !.vec[v].size_ = @ + 1])

\* push_back(value)
push_back(m, v, ref) ==
    LET x == m.vec[v]
    IN  IF x.size_ # x.capacity_
        THEN LET m1 == ConstructAt(m, x.data_, x.size_ + 1, ReadRef(m, ref), "slot")
             IN  IF ~Ok(m1) THEN m1 ELSE [m1 EXCEPT !.vec[v].size_ = @ + 1]
        ELSE push_back_realloc(m, v, ref)

\* mutant: the last element is not destroyed
pop_back_no_destroy(m, v) == [m EXCEPT !.vec[v].size_ = @ - 1]

\* pop_back()
pop_back(m, v) ==
    LET x == m.vec[v]
    IN  [DestroyAt(m, x.data_, x.size_) EXCEPT !.vec[v].size_ = @ - 1]

\* mutant: allocates one slot more than asked
reserve_one_more(m, v, new_capacity) ==
    IF m.vec[v].capacity_ >= new_capacity THEN m ELSE new_buffer(m, v, new_capacity + 1)

\* reserve(new_capacity)
reserve(m, v, new_capacity) ==
    IF m.vec[v].capacity_ >= new_capacity THEN m ELSE new_buffer(m, v, new_capacity)

\* mutant: never reallocates
shrink_to_fit_never(m, v) == m

\* shrink_to_fit()
shrink_to_fit(m, v) ==
    IF m.vec[v].size_ < m.vec[v].capacity_ THEN new_buffer(m, v, m.vec[v].size_) ELSE m

\* clear()
clear(m, v) ==
    [destroy_all(m, m.vec[v].data_, m.vec[v].size_) EXCEPT !.vec[v].size_ = 0]

\* operator[](i): the cell data_[i] of vector record x (i counted from 0)
subscript(m, x, i) == ReadCell(m, x.data_, i + 1)

\* v[i] = val: T's assignment through the reference operator[] returns
write_elem(m, v, i, val) == AssignAt(m, m.vec[v].data_, i + 1, val, "assign")

\* T* data()
data(x) == IF x.capacity_ = 0 THEN NULL ELSE x.data_

\* T const* data() const
data_const(x) == x.data_

\* the loop of insert: for (i = size_ - 1; i != ind; i--) swap(data_[i], data_[i - 1])
\* with i and ind counted from 1 here
RECURSIVE InsertLoop(_, _, _, _)
InsertLoop(m, p, i, ind) ==
    IF i = ind \/ ~Ok(m) THEN m
    ELSE InsertLoop(swap_elems(m, p, i, i - 1), p, i - 1, ind)

\* mutant: the new element is appended and never moved down to pos
insert_no_shift(m, v, ind, ref) ==
    LET m1 == push_back(m, v, ref)
    IN  m1

\* insert(pos, val), pos = begin() + ind (ind counted from 0)
insert(m, v, ind, ref) ==
    LET m1 == push_back(m, v, ref)
    IN  IF ~Ok(m1) THEN m1
        ELSE InsertLoop(m1, m1.vec[v].data_, m1.vec[v].size_, ind + 1)

\* return begin() + ind: the index from begin() of the iterator returned
insert_result(ind) == ind

\* the loop of erase(pos): for (i = pos - begin(); i + 1 != size_; i++)
\*                             swap(data_[i], data_[i + 1])
RECURSIVE EraseLoop(_, _, _, _)
EraseLoop(m, p, i, size) ==
    IF i = size \/ ~Ok(m) THEN m
    ELSE EraseLoop(swap_elems(m, p, i, i + 1), p, i + 1, size)

\* mutant: the last element is removed whatever pos is
erase_no_shift(m, v, ind) == pop_back(m, v)

\* erase(pos), pos = begin() + ind (ind counted from 0)
erase(m, v, ind) ==
    LET m1 == EraseLoop(m, m.vec[v].data_, ind + 1, m.vec[v].size_)
    IN  IF ~Ok(m1) THEN m1 ELSE pop_back(m1, v)

\* iterator result = const_cast<iterator>(pos) + 1; ... return result;
\* erase does not reallocate, so result is the index after pos from begin()
erase_result(ind) == ind + 1

\* the first loop of erase(first, last): swap(*i, *j) while j != end()
RECURSIVE RangeLoop(_, _, _, _, _)
RangeLoop(m, p, i, j, size) ==
    IF j > size \/ ~Ok(m) THEN m
    ELSE RangeLoop(swap_elems(m, p, i, j), p, i + 1, j + 1, size)

RECURSIVE PopLoop(_, _, _)
PopLoop(m, v, n) == IF n = 0 THEN m ELSE PopLoop(pop_back(m, v), v, n - 1)

\* mutant: the tail is not moved down before the last elements are removed
erase_range_no_shift(m, v, f, l) == PopLoop(m, v, l - f)

\* erase(first, last), first = begin() + f, last = begin() + l
erase_range(m, v, f, l) ==
    LET m1 == RangeLoop(m, m.vec[v].data_, f + 1, l + 1, m.vec[v].size_)
    IN  IF ~Ok(m1) THEN m1 ELSE PopLoop(m1, v, l - f)

\* return begin() + (last - first): the index from begin() of the iterator returned
erase_range_result(f, l) == l - f

\* ------------------------------------------------------------ the actions
\* The failure points the environment may choose for an operation whose
\* run without failure is m0: the number of fallible steps that succeed
\* before one throws, or NoFail.
Budgets(m0) == {NoFail} \cup 0..(m0.steps - 1)

\* the references a caller may pass to push_back / insert of vector v
Refs(v) ==
    [own : {FALSE}, val : Vals, p : {NULL}, i : {0}]
        \cup [own : {TRUE}, val : {RAW}, p : {vec[v].data_}, i : 1..vec[v].size_]

NoRef == [own |-> FALSE, val |-> RAW, p |-> NULL, i |-> 0]

\* the elements of a vector record x in heap h, in index order
ElemsOf(h, x) == [i \in 1..x.size_ |-> h[x.data_].cells[i]]

Elems(v) == ElemsOf(heap, vec[v])

\* history of vector a: since its default construction only successful
\* push_backs were applied to it (pure), the capacities after each of them
\* and the values pushed
HistStep(m, op, v, w, ref) ==
    IF v # "a" /\ ~(op = "swap" /\ w = "a") THEN hist
    ELSE IF op = "vector" THEN [pure |-> TRUE, caps |-> << >>, vals |-> << >>]
    ELSE IF op = "push_back" /\ Ok(m) /\ hist.pure
         THEN [pure |-> TRUE,
               caps |-> Append(hist.caps, m.vec["a"].capacity_),
               vals |-> Append(hist.vals, ReadRef(Start(NoFail), ref))]
    ELSE [pure |-> FALSE, caps |-> << >>, vals |-> << >>]

\* no call has been made since the caller looked at the last one
Idle ==
    [op |-> "none", v |-> "", w |-> "", exc |-> "none", at |-> 0,
     n |-> 0, k |-> 0, own |-> FALSE, val |-> RAW, size0 |-> 0, cap0 |-> 0,
     ret |-> 0]

\* the index from begin() of the iterator a call returns (0 for the
\* operations that return none); n, k are the call's position arguments
Returned(op, n, k) ==
    CASE op = "insert"      -> insert_result(n)
      [] op = "erase"       -> erase_result(n)
      [] op = "erase_range" -> erase_range_result(n, k)
      [] OTHER              -> 0

\* The caller makes a call: the operation runs, its effects become the
\* state, and last records what the caller sees of it: which operation it
\* was, on which vector, with which arguments (n, k: sizes and indices;
\* val: the value of the T const& argument; own: whether that reference
\* was to an element of the vector itself) and how it ended (exc: the
\* exception that left it, at: the index of the element whose copy threw;
\* size0, cap0: size() and capacity() of the vector before the call;
\* ret: the iterator returned, as its index from begin()).
Done(m, op, v, w, n, k, ref) ==
    /\ vec' = m.vec
    /\ heap' = m.heap
    /\ live' = m.live
    /\ err' = m.err
    /\ last' = [op |-> op, v |-> v, w |-> w, exc |-> m.exc, at |-> m.at,
                n |-> n, k |-> k, own |-> ref.own,
                val |-> ReadRef(Start(NoFail), ref),
                size0 |-> vec[v].size_, cap0 |-> vec[v].capacity_,
                ret |-> Returned(op, n, k)]
    /\ hist' = HistStep(m, op, v, w, ref)

DefaultConstruct(v) ==
    /\ last = Idle
    /\ ~vec[v].alive
    /\ \E m \in {[Start(NoFail) EXCEPT !.vec[v] = EmptyVec]} :
          Done(m, "vector", v, "", 0, 0, NoRef)

CopyConstruct(v, other) ==
    /\ last = Idle
    /\ ~vec[v].alive
    /\ vec[other].alive
    /\ \E m0 \in {vector_copy(Start(NoFail), v, other)} :
       \E bud \in Budgets(m0) :
       \E m \in {vector_copy(Start(bud), v, other)} :
          Done(m, "copy", v, other, 0, 0, NoRef)

Assign(v, other) ==
    /\ last = Idle
    /\ vec[v].alive
    /\ vec[other].alive
    /\ \E m0 \in {vector_assign(Start(NoFail), v, other)} :
       \E bud \in Budgets(m0) :
       \E m \in {vector_assign(Start(bud), v, other)} :
          Done(m, "assign", v, other, 0, 0, NoRef)

Destroy(v) ==
    /\ last = Idle
    /\ vec[v].alive
    /\ \E m \in {vector_dtor(Start(NoFail), v)} :
          Done(m, "dtor", v, "", 0, 0, NoRef)

PushBack(v, ref, cb, lb) ==
    /\ last = Idle
    /\ vec[v].alive
    /\ vec[v].size_ < lb
    /\ vec[v].size_ # vec[v].capacity_ \/ increase_capacity(vec[v]) <= cb
    /\ \E m0 \in {push_back(Start(NoFail), v, ref)} :
       \E bud \in Budgets(m0) :
       \E m \in {push_back(Start(bud), v, ref)} :
          Done(m, "push_back", v, "", 0, 0, ref)

\* precondition of pop_back: the vector is not empty
PopBack(v) ==
    /\ last = Idle
    /\ vec[v].alive
    /\ vec[v].size_ > 0
    /\ \E m \in {pop_back(Start(NoFail), v)} :
          Done(m, "pop_back", v, "", 0, 0, NoRef)

Reserve(v, n) ==
    /\ last = Idle
    /\ vec[v].alive
    /\ \E m0 \in {reserve(Start(NoFail), v, n)} :
       \E bud \in Budgets(m0) :
       \E m \in {reserve(Start(bud), v, n)} :
          Done(m, "reserve", v, "", n, 0, NoRef)

ShrinkToFit(v) ==
    /\ last = Idle
    /\ vec[v].alive
    /\ \E m0 \in {shrink_to_fit(Start(NoFail), v)} :
       \E bud \in Budgets(m0) :
       \E m \in {shrink_to_fit(Start(bud), v)} :
          Done(m, "shrink_to_fit", v, "", 0, 0, NoRef)

Clear(v) ==
    /\ last = Idle
    /\ vec[v].alive
    /\ \E m \in {clear(Start(NoFail), v)} :
          Done(m, "clear", v, "", 0, 0, NoRef)

Swap(v, w) ==
    /\ last = Idle
    /\ vec[v].alive
    /\ vec[w].alive
    /\ \E m \in {vector_swap(Start(NoFail), v, w)} :
          Done(m, "swap", v, w, 0, 0, NoRef)

\* precondition of insert: pos in [begin(), end()]
Insert(v, ind, ref, cb, lb) ==
    /\ last = Idle
    /\ vec[v].alive
    /\ vec[v].size_ < lb
    /\ vec[v].size_ # vec[v].capacity_ \/ increase_capacity(vec[v]) <= cb
    /\ ind \in 0..vec[v].size_
    /\ \E m0 \in {insert(Start(NoFail), v, ind, ref)} :
       \E bud \in Budgets(m0) :
       \E m \in {insert(Start(bud), v, ind, ref)} :
          Done(m, "insert", v, "", ind, 0, ref)

\* precondition of erase(pos): pos in [begin(), end())
Erase(v, ind) ==
    /\ last = Idle
    /\ vec[v].alive
    /\ ind \in 0..(vec[v].size_ - 1)
    /\ \E m0 \in {erase(Start(NoFail), v, ind)} :
       \E bud \in Budgets(m0) :
       \E m \in {erase(Start(bud), v, ind)} :
          Done(m, "erase", v, "", ind, 0, NoRef)

\* precondition of erase(first, last): begin() <= first <= last <= end()
EraseRange(v, f, l) ==
    /\ last = Idle
    /\ vec[v].alive
    /\ f \in 0..vec[v].size_
    /\ l \in f..vec[v].size_
    /\ \E m0 \in {erase_range(Start(NoFail), v, f, l)} :
       \E bud \in Budgets(m0) :
       \E m \in {erase_range(Start(bud), v, f, l)} :
          Done(m, "erase_range", v, "", f, l, NoRef)

\* v[i] = val; precondition of operator[]: i in [0, size())
ElementWrite(v, i, val) ==
    /\ last = Idle
    /\ vec[v].alive
    /\ i \in 0..(vec[v].size_ - 1)
    /\ \E m0 \in {write_elem(Start(NoFail), v, i, val)} :
       \E bud \in Budgets(m0) :
       \E m \in {write_elem(Start(bud), v, i, val)} :
          Done(m, "write", v, "", i, 0, [NoRef EXCEPT !.val = val])

\* the caller has seen how the call ended and goes on
Proceed ==
    /\ last # Idle
    /\ last' = Idle
    /\ UNCHANGED <<vec, heap, live, err, hist>>

\* ------------------------------------------------------ the specifications
Init ==
    /\ vec = [x \in Vectors \cup {"tmp"} |-> IF x = "a" THEN EmptyVec ELSE NoVec]
    /\ heap = [b \in BlockIds |-> FreeBlock]
    /\ live = 0
    /\ err = {}
    /\ last = Idle
    /\ hist = [pure |-> TRUE, caps |-> << >>, vals |-> << >>]

\* two vectors a and b, every public operation, capacities up to MaxCap
Next ==
    \/ Proceed
    \/ \E v \in Vectors :
        \/ DefaultConstruct(v)
        \/ \E o \in Vectors : CopyConstruct(v, o)
        \/ \E o \in Vectors : Assign(v, o)
        \/ Destroy(v)
        \/ \E ref \in Refs(v) : PushBack(v, ref, MaxCap, MaxCap)
        \/ PopBack(v)
        \/ \E n \in 0..MaxCap : Reserve(v, n)
        \/ ShrinkToFit(v)
        \/ Clear(v)
        \/ \E w \in Vectors : Swap(v, w)
        \/ \E ind \in 0..MaxCap, ref \in Refs(v) :
              Insert(v, ind, ref, MaxCap, MaxCap)
        \/ \E ind \in 0..MaxCap : Erase(v, ind)
        \/ \E f \in 0..MaxCap, l \in 0..MaxCap :
              EraseRange(v, f, l)
        \/ \E i \in 0..MaxCap, val \in Vals : ElementWrite(v, i, val)

Spec == Init /\ [][Next]_vars

\* the single vector a, lengths up to GrowLen and capacities up to GrowCap
NextGrow ==
    \/ Proceed
    \/ DefaultConstruct("a")
    \/ Destroy("a")
    \/ \E ref \in Refs("a") :
          PushBack("a", ref, GrowCap, GrowLen)
    \/ PopBack("a")
    \/ \E n \in 0..GrowCap : Reserve("a", n)
    \/ ShrinkToFit("a")
    \/ Clear("a")
    \/ \E ind \in 0..GrowLen, ref \in Refs("a") :
          Insert("a", ind, ref, GrowCap, GrowLen)
    \/ \E ind \in 0..GrowLen : Erase("a", ind)
    \/ \E f \in 0..GrowLen, l \in 0..GrowLen : EraseRange("a", f, l)

SpecGrow == Init /\ [][NextGrow]_vars

\* ---------------------------------------------------------------- claims
\* the cells of the buffer of a vector record x (none for nullptr)
CellsOf(h, x) == IF x.data_ = NULL THEN << >> ELSE h[x.data_].cells

\* the vectors that exist
Living == {v \in Vectors : vec[v].alive}

\* C1: in every reachable state, after successful and failed operations
\* alike, exactly the slots [0, length) of a vector's buffer hold
\* constructed elements, the slots [length, capacity) hold none, and
\* 0 <= length <= capacity.
C1_SlotsInvariant ==
    \A v \in Living :
        LET x == vec[v]
            c == CellsOf(heap, x)
        IN  /\ 0 <= x.size_
            /\ x.size_ <= x.capacity_
            /\ x.data_ # NULL => heap[x.data_].alloc
            /\ Len(c) = x.capacity_
            /\ \A i \in 1..x.capacity_ : (c[i] # RAW) <=> (i <= x.size_)

\* C1 witness: an operation has just failed on a vector that holds an
\* element and a free slot.
C1_Witness ==
    /\ last.exc # "none"
    /\ last.v \in Living
    /\ vec[last.v].size_ = 1
    /\ vec[last.v].capacity_ = 2

\* C2 (as claimed): a vector's buffer is non-null iff its capacity is
\* greater than 0, and capacity 0 implies length 0, in every reachable
\* state.
C2_BufferIffCapacity ==
    \A v \in Living :
        /\ (vec[v].data_ # NULL) <=> (vec[v].capacity_ > 0)
        /\ vec[v].capacity_ = 0 => vec[v].size_ = 0

\* C3: no block is released twice, every block a living vector owns is
\* allocated and owned by that vector alone, and every allocated block is
\* owned by a living vector, so that none is left once all vectors are
\* destroyed.
C3_BlocksReleasedOnce ==
    /\ "double_free" \notin err
    /\ \A v \in Living : vec[v].data_ # NULL => heap[vec[v].data_].alloc
    /\ \A v, w \in Living : (v # w /\ vec[v].data_ # NULL) => vec[v].data_ # vec[w].data_
    /\ \A b \in BlockIds : heap[b].alloc => \E v \in Living : vec[v].data_ = b
    /\ Living = {} => \A b \in BlockIds : ~heap[b].alloc

\* C3 witness: a growing push_back has just failed while copying the
\* existing elements, with both vectors owning a block.
C3_Witness ==
    /\ last.op = "push_back"
    /\ last.exc = "copy"
    /\ Living = Vectors
    /\ \A v \in Vectors : vec[v].capacity_ > 0

\* the elements of vector v after the step
ElemsAfter(v) == ElemsOf(heap', vec'[v])

\* the whole state of the program is as it was before the call
Untouched == vec' = vec /\ heap' = heap /\ live' = live /\ err' = err

\* C4: a reserve(n) with n > capacity that fails, by allocation failure or
\* by the failing copy of any existing element, leaves the vector's length,
\* elements, capacity and buffer as they were, and every injected failure
\* leaves reserve as an exception.
C4_ReserveFailureStrong ==
    [][/\ (last'.op = "reserve" /\ last'.n > vec[last'.v].capacity_)
             => \A bud \in 0..vec[last'.v].size_ :
                   ~Ok(reserve(Start(bud), last'.v, last'.n))
       /\ (last'.op = "reserve" /\ last'.exc # "none")
             => /\ last'.n > vec[last'.v].capacity_
                /\ last'.exc \in {"alloc", "copy"}
                /\ Untouched
                /\ ElemsAfter(last'.v) = Elems(last'.v)]_vars

\* C4 witness: reserve has failed at the copy of the third element.
C4_Witness ==
    /\ last.op = "reserve"
    /\ last.exc = "copy"
    /\ last.at = 2
    /\ last.n > last.cap0
    /\ vec[last.v].size_ = 3

\* C5: whichever step of push_back fails (the copy into the free slot; or,
\* on a full vector, the local copy, the allocation, the copy of an existing
\* element, the final construction), the length, the elements and their
\* order and the number of live elements are as before the call.
C5_PushBackStrong ==
    [][(last'.op = "push_back" /\ last'.exc # "none")
          => LET v == last'.v
             IN  /\ vec'[v].size_ = vec[v].size_
                 /\ ElemsAfter(v) = Elems(v)
                 /\ live' = live
                 /\ IF vec[v].size_ < vec[v].capacity_
                       THEN last'.exc = "slot"
                       ELSE last'.exc \in {"local", "alloc", "copy", "final"}]_vars

\* C5 witness: the final construction has failed on a vector that was full
\* with two elements.
C5_Witness ==
    /\ last.op = "push_back"
    /\ last.exc = "final"
    /\ last.size0 = 2
    /\ last.cap0 = 2
    /\ vec[last.v].size_ = 2

\* C6: a copy construction that fails at the copy of element k destroys the
\* k elements constructed so far exactly once, releases the destination
\* block, brings the number of live elements back to its value before the
\* call, leaves the source unchanged and constructs no vector; every
\* injected failure leaves the constructor as an exception.
C6_CopyFailureCleansUp ==
    [][/\ last'.op = "copy"
             => \A bud \in 0..vec[last'.w].size_ :
                   ~Ok(vector_copy(Start(bud), last'.v, last'.w))
       /\ (last'.op = "copy" /\ last'.exc # "none")
             => /\ last'.exc \in {"alloc", "copy"}
                /\ last'.exc = "copy" => last'.at < vec[last'.w].size_
                /\ Untouched
                /\ ~vec'[last'.v].alive
                /\ ElemsAfter(last'.w) = Elems(last'.w)]_vars

\* C6 witness: the copy of the second element has failed.
C6_Witness ==
    /\ last.op = "copy"
    /\ last.exc = "copy"
    /\ last.at = 1
    /\ vec[last.w].size_ = 2

\* C7: a copy assignment a = b that fails leaves a's length, elements,
\* capacity and buffer and b as they were; one that succeeds leaves a with
\* b's elements in b's order and b unchanged; a = a changes nothing.
C7_AssignStrong ==
    [][last'.op = "assign"
          => LET v == last'.v
                 w == last'.w
             IN  /\ last'.exc # "none" => Untouched
                 /\ last'.exc = "none"
                       => /\ ElemsAfter(v) = Elems(w)
                          /\ vec'[w] = vec[w] \/ v = w
                          /\ ElemsAfter(w) = Elems(w)
                          /\ err' = err
                 /\ v = w => (Untouched /\ last'.exc = "none")]_vars

\* C7 witness: the assignment has failed at the copy of b's second element
\* while a held an element.
C7_Witness ==
    /\ last.op = "assign"
    /\ last.exc = "copy"
    /\ last.at = 1
    /\ last.v # last.w
    /\ vec[last.v].size_ >= 1

\* C8: a successful push_back on a full vector sets the capacity to 1 if it
\* was 0 and to twice the old capacity otherwise, one on a vector with a free
\* slot leaves the capacity unchanged; the length grows by 1 and the new
\* element is last; five push_backs on an empty vector give the capacities
\* 1, 2, 4, 4, 8 and the elements in push order.
C8_GrowthByDoubling ==
    [][/\ (last'.op = "push_back" /\ last'.exc = "none")
             => LET v == last'.v
                    x == vec[v]
                IN  /\ vec'[v].capacity_ =
                          (IF x.size_ < x.capacity_ THEN x.capacity_
                           ELSE IF x.capacity_ = 0 THEN 1 ELSE 2 * x.capacity_)
                    /\ vec'[v].size_ = x.size_ + 1
                    /\ ElemsAfter(v) = Append(Elems(v), last'.val)
       /\ hist'.pure
             => /\ hist'.vals = ElemsAfter("a")
                /\ \A i \in 1..Len(hist'.caps) :
                      i <= 5 => hist'.caps[i] = <<1, 2, 4, 4, 8>>[i]]_vars

\* C8 witness: five push_backs on the default-constructed vector.
C8_Witness ==
    /\ hist.pure
    /\ Len(hist.caps) = 5
    /\ vec["a"].size_ = 5
    /\ vec["a"].capacity_ = 8
    /\ last.op = "push_back"

\* C9: a successful reserve(n) with n <= capacity changes nothing; with
\* n > capacity it leaves capacity = n exactly and the length and the
\* elements, in value and order, as they were.
C9_ReserveExact ==
    [][(last'.op = "reserve" /\ last'.exc = "none")
          => LET v == last'.v
             IN  /\ last'.n <= vec[v].capacity_ => Untouched
                 /\ last'.n > vec[v].capacity_
                       => /\ vec'[v].capacity_ = last'.n
                          /\ vec'[v].size_ = vec[v].size_
                          /\ ElemsAfter(v) = Elems(v)
                          /\ err' = err]_vars

\* C9 witness: a reserve beyond the capacity has succeeded on a vector of
\* two elements.
C9_Witness ==
    /\ last.op = "reserve"
    /\ last.exc = "none"
    /\ last.n > last.cap0
    /\ last.size0 = 2
    /\ vec[last.v].capacity_ = last.n

\* C10: a successful shrink_to_fit leaves capacity = length and the elements
\* as they were; it changes nothing when length = capacity, and from length 0
\* and capacity > 0 the vector ends with capacity 0 and no buffer.
C10_ShrinkToFit ==
    [][(last'.op = "shrink_to_fit" /\ last'.exc = "none")
          => LET v == last'.v
             IN  /\ vec'[v].capacity_ = vec'[v].size_
                 /\ vec'[v].size_ = vec[v].size_
                 /\ ElemsAfter(v) = Elems(v)
                 /\ err' = err
                 /\ vec[v].size_ = vec[v].capacity_ => Untouched
                 /\ (vec[v].size_ = 0 /\ vec[v].capacity_ > 0)
                       => (vec'[v].capacity_ = 0 /\ vec'[v].data_ = NULL)]_vars

\* C10 witness: shrink_to_fit has succeeded on a vector of two elements with
\* free slots.
C10_Witness ==
    /\ last.op = "shrink_to_fit"
    /\ last.exc = "none"
    /\ last.size0 = 2
    /\ last.cap0 > 2
    /\ vec[last.v].capacity_ = 2

\* the operations that change one vector only
Mutators ==
    {"push_back", "pop_back", "insert", "erase", "erase_range", "clear",
     "reserve", "shrink_to_fit", "write"}

\* vector w and the cells of its block are as they were before the step
SameVector(w) ==
    /\ vec'[w] = vec[w]
    /\ CellsOf(heap', vec'[w]) = CellsOf(heap, vec[w])

\* C11: copies are deep: after b is copy-constructed or copy-assigned from a
\* the two have the same length and equal elements, b's buffer is not a's,
\* and a is as it was; every later operation that changes one vector
\* (push_back, pop_back, insert, erase, clear, reserve, shrink_to_fit, an
\* element write), failed or not, leaves the other vector's length, elements,
\* capacity and buffer unchanged.
C11_DeepCopy ==
    [][/\ (last'.op \in {"copy", "assign"} /\ last'.exc = "none"
              /\ last'.v # last'.w)
          => LET v == last'.v
                 w == last'.w
             IN  /\ vec'[v].size_ = vec'[w].size_
                 /\ ElemsAfter(v) = ElemsAfter(w)
                 /\ vec'[v].data_ # vec'[w].data_
                 /\ SameVector(w)
       /\ last'.op \in Mutators
          => \A w \in Vectors \ {last'.v} : SameVector(w)]_vars

\* C11 witness: one vector holds an element and the other holds an equal
\* element followed by one just appended by push_back, in a block of its own.
C11_Witness ==
    /\ last.op = "push_back"
    /\ last.exc = "none"
    /\ \E w \in Vectors \ {last.v} :
          /\ vec[w].alive
          /\ vec[w].size_ = 1
          /\ Elems(last.v) = Append(Elems(w), last.val)
          /\ vec[w].data_ # vec[last.v].data_

\* C12: a successful insert of value x at index k (0 <= k <= n) into a vector
\* of n elements leaves n + 1 elements: the former elements [0, k) at their
\* indices, x at index k, and the former elements [k, n) one index higher, in
\* their order.
C12_InsertShifts ==
    [][(last'.op = "insert" /\ last'.exc = "none")
          => LET v   == last'.v
                 k   == last'.n
                 old == Elems(v)
             IN  /\ vec'[v].size_ = Len(old) + 1
                 /\ ElemsAfter(v) = SubSeq(old, 1, k) \o <<last'.val>>
                                       \o SubSeq(old, k + 1, Len(old))
                 /\ err' = err]_vars

\* C12 witness: insert at index 1 of a vector of three elements has succeeded
\* and the value sits at index 1 between different neighbours.
C12_Witness ==
    /\ last.op = "insert"
    /\ last.exc = "none"
    /\ last.n = 1
    /\ last.size0 = 3
    /\ vec[last.v].size_ = 4
    /\ Elems(last.v)[2] = last.val
    /\ Elems(last.v)[1] # Elems(last.v)[3]

\* C13: a successful erase of the element at index k (0 <= k < n) of a
\* vector of n >= 1 elements leaves n - 1 elements, the former elements
\* without the one at index k and in their order; the capacity and the buffer
\* are unchanged.
C13_EraseOne ==
    [][(last'.op = "erase" /\ last'.exc = "none")
          => LET v   == last'.v
                 k   == last'.n
                 old == Elems(v)
             IN  /\ vec'[v].size_ = Len(old) - 1
                 /\ ElemsAfter(v) = SubSeq(old, 1, k)
                                       \o SubSeq(old, k + 2, Len(old))
                 /\ vec'[v].capacity_ = vec[v].capacity_
                 /\ vec'[v].data_ = vec[v].data_
                 /\ err' = err]_vars

\* C13 witness: erase at index 0 of a vector of three elements has succeeded
\* and left two different elements.
C13_Witness ==
    /\ last.op = "erase"
    /\ last.exc = "none"
    /\ last.n = 0
    /\ last.size0 = 3
    /\ vec[last.v].size_ = 2
    /\ Elems(last.v)[1] # Elems(last.v)[2]

\* C14: a successful erase of the range [first, last) with
\* 0 <= first <= last <= n leaves the former elements [0, first) followed by
\* the former elements [last, n), in their order; this holds when
\* first = last (nothing removed) and when the tail [last, n) is longer than
\* the range removed.
C14_EraseRange ==
    [][(last'.op = "erase_range" /\ last'.exc = "none")
          => LET v   == last'.v
                 f   == last'.n
                 l   == last'.k
                 old == Elems(v)
             IN  /\ vec'[v].size_ = Len(old) - (l - f)
                 /\ ElemsAfter(v) = SubSeq(old, 1, f)
                                       \o SubSeq(old, l + 1, Len(old))
                 /\ f = l => ElemsAfter(v) = old
                 /\ err' = err]_vars

\* C14 witness: the range [1, 2) of a vector of five elements has been erased:
\* the tail of three elements is longer than the range, and the four elements
\* left are not all equal.
C14_Witness ==
    /\ last.op = "erase_range"
    /\ last.exc = "none"
    /\ last.n = 1
    /\ last.k = 2
    /\ last.size0 = 5
    /\ vec[last.v].size_ = 4
    /\ Elems(last.v)[2] # Elems(last.v)[3]

\* the number of elements of s equal to x
Count(s, x) == Cardinality({i \in 1..Len(s) : s[i] = x})

\* s and t hold the same values, each as many times
SameValues(s, t) == \A x \in Vals \cup {RAW} : Count(s, x) = Count(t, x)

\* the elements insert / erase works on once its loop runs: insert has
\* appended the value, the erases have removed nothing yet
LoopElems ==
    IF last'.op = "insert" THEN Append(Elems(last'.v), last'.val)
    ELSE Elems(last'.v)

\* the machine at the state the step leads to
StartAfter ==
    [Start(NoFail) EXCEPT !.vec = vec', !.heap = heap', !.live = live',
                          !.err = err']

\* After a failed exchange in a loop of insert / erase the vector is valid:
\* its slots [0, size_) and no others hold elements, size_ is the number of
\* its live elements and at most capacity_, no object was leaked or
\* destroyed twice, and destroying the vector releases all of it.
ValidAfterFailedSwap ==
    LET v == last'.v
        x == vec'[v]
        c == CellsOf(heap', x)
        d == vector_dtor(StartAfter, v)
    IN  /\ x.alive
        /\ x.size_ = Len(LoopElems)
        /\ x.size_ <= x.capacity_
        /\ Len(c) = x.capacity_
        /\ \A i \in 1..x.capacity_ : (c[i] # RAW) <=> (i <= x.size_)
        /\ live' = live + (x.size_ - vec[v].size_)
        /\ err' = err
        /\ d.err = err'
        /\ d.live = live' - x.size_
        /\ ~d.heap[x.data_].alloc

\* C15 (as claimed): if an exchange of two elements fails in the loop of
\* insert, erase or erase(first, last), the vector stays valid and only the
\* order of its elements is unspecified: the elements are those the loop
\* started with, none lost and none twice.
C15_OnlyOrderUnspecified ==
    [][(last'.op \in {"insert", "erase", "erase_range"} /\ last'.exc = "swap")
          => /\ ValidAfterFailedSwap
             /\ SameValues(ElemsAfter(last'.v), LoopElems)]_vars

\* C15 (amended): if an exchange of two elements fails in the loop of insert,
\* erase or erase(first, last), the vector stays valid: every slot in
\* [0, size) holds an element, size is the number of live elements (the old
\* size for the erases, one more for insert) and at most the capacity,
\* nothing is leaked or destroyed twice and the vector can be destroyed; the
\* order and the values of the elements are unspecified.
C15_WeakGuarantee ==
    [][(last'.op \in {"insert", "erase", "erase_range"} /\ last'.exc = "swap")
          => ValidAfterFailedSwap]_vars

\* C15 witness: an exchange has failed in the loop of insert into a vector of
\* two elements, which now holds three.
C15_Witness ==
    /\ last.op = "insert"
    /\ last.exc = "swap"
    /\ last.size0 = 2
    /\ last.n = 0
    /\ vec[last.v].size_ = 3

\* C16: swap exchanges the buffer, length and capacity of the two vectors and
\* nothing else: no block is allocated or released, no element is copied,
\* constructed, destroyed or exchanged (the heap and the number of live
\* objects are as before and swap has no step that can fail), and swapping
\* twice restores both vectors.
C16_SwapExchangesFields ==
    [][last'.op = "swap"
          => LET v == last'.v
                 w == last'.w
                 once  == vector_swap(Start(0), v, w)
                 twice == vector_swap(once, v, w)
             IN  /\ last'.exc = "none"
                 /\ vec'[v].data_ = vec[w].data_
                 /\ vec'[v].size_ = vec[w].size_
                 /\ vec'[v].capacity_ = vec[w].capacity_
                 /\ vec'[w].data_ = vec[v].data_
                 /\ vec'[w].size_ = vec[v].size_
                 /\ vec'[w].capacity_ = vec[v].capacity_
                 /\ \A u \in Vectors \ {v, w} : vec'[u] = vec[u]
                 /\ heap' = heap
                 /\ live' = live
                 /\ err' = err
                 /\ Ok(once) /\ once.steps = 0
                 /\ twice.vec = vec /\ twice.heap = heap]_vars

\* C16 witness: two vectors of different lengths, capacities and buffers have
\* been swapped.
C16_Witness ==
    /\ last.op = "swap"
    /\ last.v # last.w
    /\ vec[last.v].size_ = 2
    /\ vec[last.w].size_ = 1
    /\ vec[last.w].capacity_ = 1
    /\ vec[last.v].data_ # vec[last.w].data_

\* C17 (as claimed): in every reachable state both data() and data() const
\* of a vector with capacity 0 return the null pointer, also when the vector
\* holds a block of zero slots, and with capacity > 0 both return the buffer.
C17_DataNullAtZeroCapacity ==
    \A v \in Living :
        LET x == vec[v]
        IN  /\ x.capacity_ = 0 => (data(x) = NULL /\ data_const(x) = NULL)
            /\ x.capacity_ > 0 => (data(x) = x.data_ /\ data_const(x) = x.data_)

\* C18: when push_back on a full vector fails at the final construction, after
\* the reallocation has succeeded, the vector keeps the new buffer: its
\* capacity is 1 if it was 0 and twice the old capacity otherwise, and its
\* length and elements are as before; when it fails earlier (at the local
\* copy, the allocation or the copy of an existing element) the capacity and
\* the buffer are as before.
C18_FailedPushBackCapacity ==
    [][(last'.op = "push_back" /\ last'.exc # "none"
              /\ vec[last'.v].size_ = vec[last'.v].capacity_)
          => LET v == last'.v
                 x == vec[v]
             IN  IF last'.exc = "final"
                 THEN /\ vec'[v].capacity_
                            = IF x.capacity_ = 0 THEN 1 ELSE 2 * x.capacity_
                      /\ vec'[v].size_ = x.size_
                      /\ ElemsAfter(v) = Elems(v)
                      /\ vec'[v].data_ # NULL
                      /\ err' = err
                 ELSE /\ last'.exc \in {"local", "alloc", "copy"}
                      /\ vec'[v] = x
                      /\ heap' = heap]_vars

\* C18 witness: the final construction has failed on a vector that was full
\* with four elements and now has capacity 8.
C18_Witness ==
    /\ last.op = "push_back"
    /\ last.exc = "final"
    /\ last.size0 = 4
    /\ last.cap0 = 4
    /\ vec[last.v].size_ = 4
    /\ vec[last.v].capacity_ = 8

\* C19 (as claimed): a successful erase(pos) at index k returns the position
\* at index k, a successful erase(first, last) returns the position at index
\* first, and a successful insert at index k returns the position at index k.
C19_ReturnedPositions ==
    (last.op \in {"erase", "erase_range", "insert"} /\ last.exc = "none")
        => last.ret = last.n

\* C20: push_back(x) and insert(pos, x) are correct when x is a reference to
\* an element of the vector itself, also when the call reallocates: no
\* destroyed element or released block is read, and when the call succeeds
\* the element added equals the value x referred to before the call, the
\* other elements keeping their values and order.
C20_SelfReference ==
    [][(last'.op \in {"push_back", "insert"} /\ last'.own)
          => LET v   == last'.v
                 old == Elems(v)
                 k   == IF last'.op = "insert" THEN last'.n ELSE Len(old)
             IN  /\ err' = err
                 /\ last'.val \in Vals
                 /\ last'.exc = "none"
                       => ElemsAfter(v) = SubSeq(old, 1, k) \o <<last'.val>>
                                             \o SubSeq(old, k + 1, Len(old))]_vars

\* C20 witness: insert at index 0 of a reference to an element of the vector
\* itself has succeeded on a vector that was full with two elements, so that
\* the call reallocated.
C20_Witness ==
    /\ last.op = "insert"
    /\ last.own
    /\ last.exc = "none"
    /\ last.n = 0
    /\ last.size0 = 2
    /\ last.cap0 = 2
    /\ vec[last.v].capacity_ = 4
    /\ Elems(last.v)[1] = last.val

====
